---- MODULE Spec2Model ----
(***************************************************************************)
(* EduMood emotion recognition: the per-frame sampling / annotation-cache  *)
(* / statistics / latency core of src/edumood_recognizer.py                *)
(* (EduMoodSessionStats and EduMoodRecognizer), driven serially by the     *)
(* streamlit-webrtc callbacks of src/app.py.                               *)
(*                                                                         *)
(* Python values are modelled as follows.                                  *)
(*   - Optional x : <<>> is None, <<x>> is a present value.                *)
(*   - str        : a label is the sequence of its characters, so that     *)
(*                  str.lower() is computed character by character.        *)
(*   - dict       : a sequence of <<key, value>> pairs in insertion order. *)
(*   - ndarray    : a frame is [pix |-> row of pixels, boxes |-> the set   *)
(*                  of rectangles+labels drawn on it].                     *)
(*   - datetime   : an integer clock advanced by the environment (Tick).   *)
(*   - float ms   : an integer number of milliseconds; the average is kept *)
(*                  as the exact fraction sum / count.                     *)
(***************************************************************************)
EXTENDS Integers, Sequences, FiniteSets

VARIABLES
    analyze_every_n,   \* EduMoodRecognizer.analyze_every_n
    frame_count,       \* EduMoodRecognizer.frame_count
    last_annotated,    \* EduMoodRecognizer.last_annotated (Optional frame)
    latency_records,   \* EduMoodRecognizer.latency_records
    session_start,     \* EduMoodRecognizer.session_start
    session_end,       \* EduMoodRecognizer.session_end (Optional instant)
    records,           \* EduMoodSessionStats.records
    clock,             \* the wall clock read by datetime.now()
    call,              \* the last call made on the objects and its inputs
    ret,               \* what that call returned, logged or raised
    analyzed           \* history: the frame the latest analysing call returned

vars == <<analyze_every_n, frame_count, last_annotated, latency_records,
          session_start, session_end, records, clock, call, ret,
          analyzed>>

----------------------------------------------------------------------------
(* Bounds of the model *)

MaxN == 3
MaxFrames == 4
MaxRecords == 3
MaxClock == 1
MaxFaces == 2
MaxStoreFrames == 2
MaxLatencyFrames == 3
MaxDashFrames == 2

----------------------------------------------------------------------------
(* Python values *)

None == <<>>
Some(x) == <<x>>

Last(s) == s[Len(s)]

IsPrefix(s, t) ==
    /\ Len(s) <= Len(t)
    /\ \A i \in 1..Len(s) : s[i] = t[i]

\* sum(latencies)
RECURSIVE SumSeq(_)
SumSeq(s) == IF s = <<>> THEN 0 ELSE s[1] + SumSeq(Tail(s))

MinSeqFirst(s) == s[1]

\* min(latencies)
MinSeq(s) == CHOOSE x \in {s[i] : i \in 1..Len(s)} :
                 \A j \in 1..Len(s) : x <= s[j]

\* max(latencies)
MaxSeq(s) == CHOOSE x \in {s[i] : i \in 1..Len(s)} :
                 \A j \in 1..Len(s) : x >= s[j]

\* Python's a % n for n # 0: the result takes the sign of the divisor.
PyMod(a, n) ==
    IF n > 0 THEN a % n ELSE -((-a) % (-n))

----------------------------------------------------------------------------
(* str: labels as character sequences, and str.lower() *)

UpperAlpha == <<"A","B","C","D","E","F","G","H","I","J","K","L","M",
                "N","O","P","Q","R","S","T","U","V","W","X","Y","Z">>
LowerAlpha == <<"a","b","c","d","e","f","g","h","i","j","k","l","m",
                "n","o","p","q","r","s","t","u","v","w","x","y","z">>

LowerChar(c) ==
    IF \E i \in 1..Len(UpperAlpha) : UpperAlpha[i] = c
    THEN LowerAlpha[CHOOSE i \in 1..Len(UpperAlpha) : UpperAlpha[i] = c]
    ELSE c

\* str.lower()
Lower(s) == [i \in 1..Len(s) |-> LowerChar(s[i])]

\* The string literals that recognize looks up in the Counter.
s_happy     == <<"h","a","p","p","y">>
s_sad       == <<"s","a","d">>
s_angry     == <<"a","n","g","r","y">>
s_surprise  == <<"s","u","r","p","r","i","s","e">>
s_surprised == <<"s","u","r","p","r","i","s","e","d">>
s_neutral   == <<"n","e","u","t","r","a","l">>
s_disgust   == <<"d","i","s","g","u","s","t">>
s_disgusted == <<"d","i","s","g","u","s","t","e","d">>
s_fear      == <<"f","e","a","r">>
s_fearful   == <<"f","e","a","r","f","u","l">>

----------------------------------------------------------------------------
(* Frames *)

\* cv2.flip(img, 1): mirror the pixel row left to right.
Flip(img) ==
    [pix   |-> [i \in 1..Len(img.pix) |-> img.pix[Len(img.pix) + 1 - i]],
     boxes |-> img.boxes]

\* cv2.rectangle + cv2.putText at a face: a box carrying the label text.
Draw(img, x, dom) ==
    [pix |-> img.pix, boxes |-> img.boxes \cup {[x |-> x, label |-> dom]}]

AnalyzeFaceKeepsEmptyLabel(acc, x, face) ==
    IF face.raises
    THEN acc
    ELSE LET dom == Lower(face.dom)
         IN  [img      |-> Draw(acc.img, x, dom),
              emotions |-> Append(acc.emotions, dom)]

AnalyzeFaceFailureAsNeutral(acc, x, face) ==
    IF face.raises
    THEN [img |-> acc.img, emotions |-> Append(acc.emotions, s_neutral)]
    ELSE LET dom == Lower(face.dom)
         IN  [img      |-> Draw(acc.img, x, dom),
              emotions |-> IF dom # <<>> THEN Append(acc.emotions, dom)
                                         ELSE acc.emotions]

\* One pass of the loop body of _analyze_frame for the face at position x.
\* face.raises: DeepFace.analyze raised; face.dom: its "dominant_emotion"
\* (the empty string when the key is absent).
AnalyzeFace(acc, x, face) ==
    IF face.raises
    THEN acc
    ELSE LET dom == Lower(face.dom)
         IN  [img      |-> Draw(acc.img, x, dom),
              emotions |-> IF dom # <<>> THEN Append(acc.emotions, dom)
                                         ELSE acc.emotions]

RECURSIVE AnalyzeFacesAbort(_, _, _)
AnalyzeFacesAbort(acc, faces, x) ==
    IF x > Len(faces) THEN acc
    ELSE IF faces[x].raises THEN acc
    ELSE AnalyzeFacesAbort(AnalyzeFace(acc, x, faces[x]), faces, x + 1)

\* The loop over the detected faces, from face x on.
RECURSIVE AnalyzeFaces(_, _, _)
AnalyzeFaces(acc, faces, x) ==
    IF x > Len(faces) THEN acc
    ELSE AnalyzeFaces(AnalyzeFace(acc, x, faces[x]), faces, x + 1)

\* _analyze_frame: faces is what detectMultiScale and DeepFace give for img.
AnalyzeFrame(img, faces) ==
    AnalyzeFaces([img |-> img, emotions |-> <<>>], faces, 1)

----------------------------------------------------------------------------
(* Counter and the record built by recognize *)

\* Counter([e.lower() for e in emotions]).get(key, 0)
CounterGet(emotions, key) ==
    Cardinality({i \in 1..Len(emotions) : Lower(emotions[i]) = key})

BuildRecordNoSynonyms(now_str, emotions) ==
    << <<"recorded_at", now_str>>,
       <<"happy",     CounterGet(emotions, s_happy)>>,
       <<"sad",       CounterGet(emotions, s_sad)>>,
       <<"angry",     CounterGet(emotions, s_angry)>>,
       <<"surprise",  CounterGet(emotions, s_surprise)>>,
       <<"neutral",   CounterGet(emotions, s_neutral)>>,
       <<"disgusted", CounterGet(emotions, s_disgusted)>>,
       <<"fearful",   CounterGet(emotions, s_fearful)>> >>

\* The dict literal of lines 167-178.
BuildRecord(now_str, emotions) ==
    << <<"recorded_at", now_str>>,
       <<"happy",     CounterGet(emotions, s_happy)>>,
       <<"sad",       CounterGet(emotions, s_sad)>>,
       <<"angry",     CounterGet(emotions, s_angry)>>,
       <<"surprise",  CounterGet(emotions, s_surprise)
                      + CounterGet(emotions, s_surprised)>>,
       <<"neutral",   CounterGet(emotions, s_neutral)>>,
       <<"disgusted", CounterGet(emotions, s_disgust)
                      + CounterGet(emotions, s_disgusted)>>,
       <<"fearful",   CounterGet(emotions, s_fear)
                      + CounterGet(emotions, s_fearful)>> >>

\* dict access
Keys(d) == [i \in 1..Len(d) |-> d[i][1]]
HasKey(d, k) == \E i \in 1..Len(d) : d[i][1] = k
Get(d, k) == d[CHOOSE i \in 1..Len(d) : d[i][1] = k][2]

----------------------------------------------------------------------------
(* EduMoodSessionStats *)

EmptyColumns ==
    <<"recorded_at", "happy", "sad", "angry", "surprise", "neutral",
      "disgusted", "fearful">>

\* Column order of pd.DataFrame(list of dicts): keys in order of first
\* appearance over the records.
RECURSIVE UnionKeys(_, _)
UnionKeys(cols, ks) ==
    IF ks = <<>> THEN cols
    ELSE UnionKeys(IF \E i \in 1..Len(cols) : cols[i] = ks[1]
                   THEN cols ELSE Append(cols, ks[1]),
                   Tail(ks))

RECURSIVE FrameColumns(_, _)
FrameColumns(cols, recs) ==
    IF recs = <<>> THEN cols
    ELSE FrameColumns(UnionKeys(cols, Keys(recs[1])), Tail(recs))

\* One row: per column the record's value, <<>> (NaN) where the key is absent.
FrameRow(cols, d) ==
    [c \in 1..Len(cols) |-> IF HasKey(d, cols[c]) THEN Some(Get(d, cols[c]))
                                                  ELSE None]

to_dataframe_Reversed(recs) ==
    IF recs = <<>>
    THEN [columns |-> EmptyColumns, rows |-> <<>>]
    ELSE LET cols == FrameColumns(<<>>, recs)
         IN  [columns |-> cols,
              rows    |-> [r \in 1..Len(recs) |->
                              FrameRow(cols, recs[Len(recs) + 1 - r])]]

to_dataframe_NoSchema(recs) ==
    LET cols == FrameColumns(<<>>, recs)
    IN  [columns |-> cols,
         rows    |-> [r \in 1..Len(recs) |-> FrameRow(cols, recs[r])]]

\* to_dataframe
to_dataframe(recs) ==
    IF recs = <<>>
    THEN [columns |-> EmptyColumns, rows |-> <<>>]
    ELSE LET cols == FrameColumns(<<>>, recs)
         IN  [columns |-> cols,
              rows    |-> [r \in 1..Len(recs) |-> FrameRow(cols, recs[r])]]

----------------------------------------------------------------------------
(* Inputs *)

\* Sampling intervals a caller may pass: __init__ accepts any integer.
NValues == (-MaxN)..MaxN

Pixels(p) == [pix |-> p, boxes |-> {}]

\* Frames delivered by the transport layer.
RawFrames == {Pixels(<<0, 1>>), Pixels(<<1, 1>>)}

\* What DeepFace.analyze does for one face region.
Raises == [raises |-> TRUE, dom |-> <<>>]
Label(l) == [raises |-> FALSE, dom |-> l]

l_Happy     == <<"H","a","p","p","y">>
l_SURPRISED == <<"S","U","R","P","R","I","S","E","D">>
l_contempt  == <<"c","o","n","t","e","m","p","t">>
l_empty     == <<>>

\* Faces found on an analysed frame, with the classifier's answer for each.
Scenes ==
    { <<>>,
      <<Label(l_Happy)>>,
      <<Raises, Label(l_SURPRISED)>> }

\* time.time() differences, in ms.
Latencies == {10}

\* Dicts handed to add_record by callers other than recognize: the two of
\* src/test_edumood.py, and a complete record.
TestRecords ==
    { << <<"happy", 2>>, <<"sad", 1>> >>,
      << <<"happy", 2>>, <<"sad", 1>>, <<"neutral", 3>> >>,
      << <<"recorded_at", 0>>, <<"happy", 1>>, <<"sad", 0>>, <<"angry", 2>>,
         <<"surprise", 0>>, <<"neutral", 0>>, <<"disgusted", 0>>,
         <<"fearful", 0>> >> }

\* Every answer the classifier may give for a face: each label recognize
\* looks up, labels in other letter cases, a label it does not know, no
\* label, and a failure.
Outcomes ==
    { Raises, Label(l_empty), Label(l_contempt), Label(l_Happy),
      Label(l_SURPRISED), Label(s_happy), Label(s_sad), Label(s_angry),
      Label(s_surprise), Label(s_surprised), Label(s_neutral),
      Label(s_disgust), Label(s_disgusted), Label(s_fear),
      Label(s_fearful) }

\* All frames with at most MaxFaces faces.
AllScenes ==
    UNION { [1..k -> Outcomes] : k \in 0..MaxFaces }

\* Analysis durations of the latency example.
LatencySamples == {10, 20, 30}

----------------------------------------------------------------------------
(* State after EduMoodSessionStats() and EduMoodRecognizer(stats, n) *)

Init ==
    /\ analyze_every_n \in NValues
    /\ frame_count = 0
    /\ last_annotated = None
    /\ latency_records = <<>>
    /\ clock = 0
    /\ session_start = 0
    /\ session_end = None
    /\ records = <<>>
    /\ call = [op |-> "__init__"]
    /\ ret = [kind |-> "None"]
    /\ analyzed = None

----------------------------------------------------------------------------
(* EduMoodSessionStats operations *)

AddRecordFront(record) ==
    /\ records' = <<record>> \o records
    /\ call' = [op |-> "add_record", record |-> record]
    /\ ret' = [kind |-> "None"]
    /\ UNCHANGED <<analyze_every_n, frame_count, last_annotated,
                   latency_records, session_start, session_end, clock, analyzed>>

\* add_record
AddRecord(record) ==
    /\ records' = Append(records, record)
    /\ call' = [op |-> "add_record", record |-> record]
    /\ ret' = [kind |-> "None"]
    /\ UNCHANGED <<analyze_every_n, frame_count, last_annotated,
                   latency_records, session_start, session_end, clock, analyzed>>

\* to_dataframe, as called by src/app.py
ToDataframe ==
    /\ call' = [op |-> "to_dataframe"]
    /\ ret' = [kind |-> "DataFrame", df |-> to_dataframe(records)]
    /\ UNCHANGED <<analyze_every_n, frame_count, last_annotated,
                   latency_records, session_start, session_end, records,
                   clock, analyzed>>

----------------------------------------------------------------------------
(* EduMoodRecognizer.recognize *)

DueBeforeIncrement(count, n) == PyMod(count - 1, n) = 0

\* The test of line 137, negated: the frame numbered count is analysed.
Due(count, n) == PyMod(count, n) = 0

\* frame_count % analyze_every_n raises ZeroDivisionError.
RecognizeZeroDivision(raw) ==
    /\ analyze_every_n = 0
    /\ frame_count' = frame_count + 1
    /\ call' = [op |-> "recognize", decision |-> "Raise", raw |-> raw]
    /\ ret' = [kind |-> "raise", exc |-> "ZeroDivisionError"]
    /\ UNCHANGED <<analyze_every_n, last_annotated, latency_records,
                   session_start, session_end, records, clock, analyzed>>

RecognizePassThroughCaches(raw) ==
    /\ analyze_every_n # 0
    /\ ~Due(frame_count + 1, analyze_every_n)
    /\ last_annotated = None
    /\ frame_count' = frame_count + 1
    /\ call' = [op |-> "recognize", decision |-> "PassThroughRaw", raw |-> raw]
    /\ ret' = [kind |-> "VideoFrame", img |-> Flip(raw)]
    /\ last_annotated' = Some(Flip(raw))
    /\ UNCHANGED <<analyze_every_n, latency_records,
                   session_start, session_end, records, clock, analyzed>>

\* Not the Nth frame and nothing analysed yet: the mirrored image goes out.
RecognizePassThrough(raw) ==
    /\ analyze_every_n # 0
    /\ ~Due(frame_count + 1, analyze_every_n)
    /\ last_annotated = None
    /\ frame_count' = frame_count + 1
    /\ call' = [op |-> "recognize", decision |-> "PassThroughRaw", raw |-> raw]
    /\ ret' = [kind |-> "VideoFrame", img |-> Flip(raw)]
    /\ UNCHANGED <<analyze_every_n, last_annotated, latency_records,
                   session_start, session_end, records, clock, analyzed>>

RecognizeReuseSkipsCount(raw) ==
    /\ analyze_every_n # 0
    /\ ~Due(frame_count + 1, analyze_every_n)
    /\ last_annotated # None
    /\ frame_count' = frame_count
    /\ call' = [op |-> "recognize", decision |-> "ReuseCache", raw |-> raw]
    /\ ret' = [kind |-> "VideoFrame", img |-> last_annotated[1]]
    /\ UNCHANGED <<analyze_every_n, last_annotated, latency_records,
                   session_start, session_end, records, clock, analyzed>>

RecognizeReuseFresh(raw) ==
    /\ analyze_every_n # 0
    /\ ~Due(frame_count + 1, analyze_every_n)
    /\ last_annotated # None
    /\ frame_count' = frame_count + 1
    /\ call' = [op |-> "recognize", decision |-> "ReuseCache", raw |-> raw]
    /\ ret' = [kind |-> "VideoFrame", img |-> Flip(raw)]
    /\ UNCHANGED <<analyze_every_n, last_annotated, latency_records,
                   session_start, session_end, records, clock, analyzed>>

\* Not the Nth frame: the last analysed frame goes out again.
RecognizeReuse(raw) ==
    /\ analyze_every_n # 0
    /\ ~Due(frame_count + 1, analyze_every_n)
    /\ last_annotated # None
    /\ frame_count' = frame_count + 1
    /\ call' = [op |-> "recognize", decision |-> "ReuseCache", raw |-> raw]
    /\ ret' = [kind |-> "VideoFrame", img |-> last_annotated[1]]
    /\ UNCHANGED <<analyze_every_n, last_annotated, latency_records,
                   session_start, session_end, records, clock, analyzed>>

RecognizeAnalyzeKeepsEnd(raw, faces, latency_ms) ==
    /\ analyze_every_n # 0
    /\ Due(frame_count + 1, analyze_every_n)
    /\ frame_count' = frame_count + 1
    /\ LET res == AnalyzeFrame(Flip(raw), faces)
       IN  /\ latency_records' = Append(latency_records, latency_ms)
           /\ session_end' = session_end
           /\ last_annotated' = Some(res.img)
           /\ records' = IF res.emotions # <<>>
                         THEN Append(records, BuildRecord(clock, res.emotions))
                         ELSE records
           /\ call' = [op |-> "recognize", decision |-> "Analyze",
                       raw |-> raw, faces |-> faces,
                       emotions |-> res.emotions]
           /\ ret' = [kind |-> "VideoFrame", img |-> res.img]
           /\ analyzed' = Some(res.img)
    /\ UNCHANGED <<analyze_every_n, session_start, clock>>

RecognizeAnalyzeAlwaysAppends(raw, faces, latency_ms) ==
    /\ analyze_every_n # 0
    /\ Due(frame_count + 1, analyze_every_n)
    /\ frame_count' = frame_count + 1
    /\ LET res == AnalyzeFrame(Flip(raw), faces)
       IN  /\ latency_records' = Append(latency_records, latency_ms)
           /\ session_end' = Some(clock)
           /\ last_annotated' = Some(res.img)
           /\ records' = Append(records, BuildRecord(clock, res.emotions))
           /\ call' = [op |-> "recognize", decision |-> "Analyze",
                       raw |-> raw, faces |-> faces,
                       emotions |-> res.emotions]
           /\ ret' = [kind |-> "VideoFrame", img |-> res.img]
           /\ analyzed' = Some(res.img)
    /\ UNCHANGED <<analyze_every_n, session_start, clock>>

RecognizeAnalyzeCachesFacesOnly(raw, faces, latency_ms) ==
    /\ analyze_every_n # 0
    /\ Due(frame_count + 1, analyze_every_n)
    /\ frame_count' = frame_count + 1
    /\ LET res == AnalyzeFrame(Flip(raw), faces)
       IN  /\ latency_records' = Append(latency_records, latency_ms)
           /\ session_end' = Some(clock)
           /\ last_annotated' = IF res.emotions # <<>> THEN Some(res.img)
                                                     ELSE last_annotated
           /\ records' = IF res.emotions # <<>>
                         THEN Append(records, BuildRecord(clock, res.emotions))
                         ELSE records
           /\ call' = [op |-> "recognize", decision |-> "Analyze",
                       raw |-> raw, faces |-> faces,
                       emotions |-> res.emotions]
           /\ ret' = [kind |-> "VideoFrame", img |-> res.img]
           /\ analyzed' = Some(res.img)
    /\ UNCHANGED <<analyze_every_n, session_start, clock>>

\* The Nth frame: analyse, record the latency, keep the annotated frame and
\* append a record when any emotion was collected.
RecognizeAnalyze(raw, faces, latency_ms) ==
    /\ analyze_every_n # 0
    /\ Due(frame_count + 1, analyze_every_n)
    /\ frame_count' = frame_count + 1
    /\ LET res == AnalyzeFrame(Flip(raw), faces)
       IN  /\ latency_records' = Append(latency_records, latency_ms)
           /\ session_end' = Some(clock)
           /\ last_annotated' = Some(res.img)
           /\ records' = IF res.emotions # <<>>
                         THEN Append(records, BuildRecord(clock, res.emotions))
                         ELSE records
           /\ call' = [op |-> "recognize", decision |-> "Analyze",
                       raw |-> raw, faces |-> faces,
                       emotions |-> res.emotions]
           /\ ret' = [kind |-> "VideoFrame", img |-> res.img]
           /\ analyzed' = Some(res.img)
    /\ UNCHANGED <<analyze_every_n, session_start, clock>>

recognize(raw, faces, latency_ms) ==
    \/ RecognizeZeroDivision(raw)
    \/ RecognizePassThrough(raw)
    \/ RecognizeReuse(raw)
    \/ RecognizeAnalyze(raw, faces, latency_ms)

----------------------------------------------------------------------------
(* EduMoodRecognizer.print_latency_summary *)

print_latency_summary_Clears ==
    /\ call' = [op |-> "print_latency_summary",
                again |-> (call.op = "print_latency_summary"),
                before |-> session_end]
    /\ IF latency_records = <<>>
       THEN /\ ret' = [kind |-> "log", text |-> "No latency data collected."]
            /\ UNCHANGED session_end
       ELSE /\ session_end' = IF session_end = None THEN Some(clock)
                                                    ELSE session_end
            /\ ret' = [kind    |-> "log",
                       text    |-> "LATENCY SUMMARY",
                       total   |-> Len(latency_records),
                       avg_num |-> SumSeq(latency_records),
                       avg_den |-> Len(latency_records),
                       min_lat |-> MinSeq(latency_records),
                       max_lat |-> MaxSeq(latency_records),
                       duration_sec |-> session_end'[1] - session_start]
    /\ latency_records' = <<>>
    /\ UNCHANGED <<analyze_every_n, frame_count, last_annotated,
                   session_start, records, clock, analyzed>>

print_latency_summary_EndsFirst ==
    /\ call' = [op |-> "print_latency_summary",
                again |-> (call.op = "print_latency_summary"),
                before |-> session_end]
    /\ IF latency_records = <<>>
       THEN /\ ret' = [kind |-> "log", text |-> "No latency data collected."]
            /\ session_end' = IF session_end = None THEN Some(clock)
                                                    ELSE session_end
       ELSE /\ session_end' = IF session_end = None THEN Some(clock)
                                                    ELSE session_end
            /\ ret' = [kind    |-> "log",
                       text    |-> "LATENCY SUMMARY",
                       total   |-> Len(latency_records),
                       avg_num |-> SumSeq(latency_records),
                       avg_den |-> Len(latency_records),
                       min_lat |-> MinSeq(latency_records),
                       max_lat |-> MaxSeq(latency_records),
                       duration_sec |-> session_end'[1] - session_start]
    /\ UNCHANGED <<analyze_every_n, frame_count, last_annotated,
                   latency_records, session_start, records, clock,
                   analyzed>>

print_latency_summary_Overwrite ==
    /\ call' = [op |-> "print_latency_summary",
                again |-> (call.op = "print_latency_summary"),
                before |-> session_end]
    /\ IF latency_records = <<>>
       THEN /\ ret' = [kind |-> "log", text |-> "No latency data collected."]
            /\ UNCHANGED session_end
       ELSE /\ session_end' = Some(clock)
            /\ ret' = [kind    |-> "log",
                       text    |-> "LATENCY SUMMARY",
                       total   |-> Len(latency_records),
                       avg_num |-> SumSeq(latency_records),
                       avg_den |-> Len(latency_records),
                       min_lat |-> MinSeq(latency_records),
                       max_lat |-> MaxSeq(latency_records),
                       duration_sec |-> session_end'[1] - session_start]
    /\ UNCHANGED <<analyze_every_n, frame_count, last_annotated,
                   latency_records, session_start, records, clock,
                   analyzed>>

\* The summary logged when the stream ends (endVideo of src/app.py); the
\* average is logged as the fraction avg_num / avg_den.
print_latency_summary ==
    /\ call' = [op |-> "print_latency_summary",
                again |-> (call.op = "print_latency_summary"),
                before |-> session_end]
    /\ IF latency_records = <<>>
       THEN /\ ret' = [kind |-> "log", text |-> "No latency data collected."]
            /\ UNCHANGED session_end
       ELSE /\ session_end' = IF session_end = None THEN Some(clock)
                                                    ELSE session_end
            /\ ret' = [kind    |-> "log",
                       text    |-> "LATENCY SUMMARY",
                       total   |-> Len(latency_records),
                       avg_num |-> SumSeq(latency_records),
                       avg_den |-> Len(latency_records),
                       min_lat |-> MinSeq(latency_records),
                       max_lat |-> MaxSeq(latency_records),
                       duration_sec |-> session_end'[1] - session_start]
    /\ UNCHANGED <<analyze_every_n, frame_count, last_annotated,
                   latency_records, session_start, records, clock,
                   analyzed>>

----------------------------------------------------------------------------
(* Environment: time passes between calls *)

Tick ==
    /\ clock < MaxClock
    /\ clock' = clock + 1
    /\ UNCHANGED <<analyze_every_n, frame_count, last_annotated,
                   latency_records, session_start, session_end, records,
                   call, ret, analyzed>>

----------------------------------------------------------------------------
(* The session: calls arrive one at a time (single caller) *)

Frame ==
    /\ frame_count < MaxFrames
    /\ \E raw \in RawFrames, faces \in Scenes, latency_ms \in Latencies :
           recognize(raw, faces, latency_ms)

Append1 ==
    /\ Len(records) < MaxRecords
    /\ \E record \in TestRecords : AddRecord(record)

Next ==
    \/ Frame
    \/ ToDataframe
    \/ print_latency_summary
    \/ Tick

Spec == Init /\ [][Next]_vars

----------------------------------------------------------------------------
(* The statistics store used by recognize and by other callers at once *)

FrameStore ==
    /\ frame_count < MaxStoreFrames
    /\ \E faces \in Scenes, latency_ms \in Latencies :
           recognize(Pixels(<<0, 1>>), faces, latency_ms)

NextStore ==
    \/ FrameStore
    \/ Append1
    \/ ToDataframe
    \/ print_latency_summary

SpecStore == Init /\ [][NextStore]_vars

----------------------------------------------------------------------------
(* One analysed frame with every combination of classifier answers *)

FrameVocab ==
    /\ frame_count < MaxFrames
    /\ \E faces \in (IF latency_records = <<>> THEN AllScenes ELSE {<<>>}) :
           recognize(Pixels(<<0, 1>>), faces, 10)

NextVocab ==
    \/ FrameVocab
    \/ ToDataframe

SpecVocab == Init /\ [][NextVocab]_vars

----------------------------------------------------------------------------
(* Latency samples and their summary *)

FrameLatency ==
    /\ frame_count < MaxLatencyFrames
    /\ \E latency_ms \in LatencySamples :
           recognize(Pixels(<<0, 1>>), <<>>, latency_ms)

NextLatency ==
    \/ FrameLatency
    \/ print_latency_summary

SpecLatency == Init /\ [][NextLatency]_vars

----------------------------------------------------------------------------
(* The dashboard of src/app.py: totals per emotion, largest first *)

emotion_cols ==
    <<"happy", "sad", "angry", "surprise", "neutral", "disgusted", "fearful">>

\* DataFrame.sum() of one column; a missing cell (NaN) is skipped.
RECURSIVE ColumnSum(_, _)
ColumnSum(recs, col) ==
    IF recs = <<>> THEN 0
    ELSE (IF HasKey(recs[1], col) THEN Get(recs[1], col) ELSE 0)
         + ColumnSum(Tail(recs), col)

\* df_indexed[emotion_cols].sum(), by position in emotion_cols
Totals(recs) ==
    [c \in 1..Len(emotion_cols) |-> ColumnSum(recs, emotion_cols[c])]

\* Series.sort_values(ascending=False) with the default kind="quicksort",
\* which is not a stable sort: every arrangement of the positions S with
\* the totals in descending order is a possible result.
RECURSIVE SortValuesDescending(_, _)
SortValuesDescending(totals, S) ==
    IF S = {} THEN {<<>>}
    ELSE LET top == {i \in S : \A j \in S : totals[i] >= totals[j]}
         IN  UNION { {<<i>> \o rest :
                          rest \in SortValuesDescending(totals, S \ {i})} :
                     i \in top }

\* Lines 88-110 and 151: the table, the stop on an empty table, the column
\* selection, df_grouped and top3.
Dashboard ==
    /\ call' = [op |-> "dashboard"]
    /\ LET df == to_dataframe(records)
       IN  IF df.rows = <<>>
           THEN ret' = [kind |-> "stop"]
           ELSE IF \E c \in 1..Len(EmptyColumns) :
                       \A k \in 1..Len(df.columns) :
                           df.columns[k] # EmptyColumns[c]
           THEN ret' = [kind |-> "raise", exc |-> "KeyError"]
           ELSE \E order \in SortValuesDescending(Totals(records),
                                                  1..Len(emotion_cols)) :
                    ret' = [kind   |-> "Series",
                            index  |-> [k \in 1..Len(order) |->
                                           emotion_cols[order[k]]],
                            values |-> [k \in 1..Len(order) |->
                                           Totals(records)[order[k]]],
                            top3   |-> [k \in 1..3 |->
                                           emotion_cols[order[k]]]]
    /\ UNCHANGED <<analyze_every_n, frame_count, last_annotated,
                   latency_records, session_start, session_end, records,
                   clock, analyzed>>

\* Classes seen by the camera: three happy faces; two happy and five sad.
DashScenes ==
    { <<Label(s_happy), Label(s_happy), Label(s_happy)>>,
      <<Label(s_happy), Label(s_happy), Label(s_sad), Label(s_sad),
        Label(s_sad), Label(s_sad), Label(s_sad)>>,
      <<Label(s_sad), Label(s_angry), Label(s_angry), Label(s_surprise),
        Label(s_neutral), Label(s_disgust), Label(s_fear)>> }

FrameDash ==
    /\ frame_count < MaxDashFrames
    /\ \E faces \in DashScenes : recognize(Pixels(<<0, 1>>), faces, 10)

\* One rendering of the page per batch of frames.
Render ==
    /\ call.op # "dashboard"
    /\ Dashboard

NextDash ==
    \/ FrameDash
    \/ Render

SpecDash == Init /\ [][NextDash]_vars

----------------------------------------------------------------------------
(* C1 *)

\* C1: for every sampling interval N >= 1, after L calls of recognize the
\* number of analysed frames is floor(L / N), and a call analyses exactly
\* when the frame counter after its increment is a multiple of N.
C1_AnalyzeEveryNth ==
    analyze_every_n >= 1 =>
        /\ Len(latency_records) = frame_count \div analyze_every_n
        /\ call.op = "recognize" =>
               (call.decision = "Analyze"
                    <=> frame_count % analyze_every_n = 0)

C1_Witness ==
    /\ analyze_every_n = 2
    /\ frame_count = 4
    /\ call.op = "recognize"
    /\ call.decision = "Analyze"
    /\ Len(latency_records) = 2

----------------------------------------------------------------------------
(* C2 *)

\* C2 as stated: a frame emitted before the first analysis is the input
\* frame unchanged, and a non-analysed frame emitted after it is the frame
\* the most recent analysis returned.
C2_PassThroughUnchanged ==
    (/\ analyze_every_n >= 1
     /\ call.op = "recognize"
     /\ call.decision # "Analyze"
     /\ ret.kind = "VideoFrame")
        => ret.img = (IF analyzed = None THEN call.raw ELSE analyzed[1])

\* C2, amended: a frame emitted before the first analysis is the input
\* frame mirrored left to right, with nothing drawn on it; a non-analysed
\* frame emitted after the first analysis is identical to the annotated
\* frame the most recent analysis returned.
C2_MirrorThenCache ==
    (/\ call.op = "recognize"
     /\ call.decision # "Analyze"
     /\ ret.kind = "VideoFrame")
        => IF analyzed = None
           THEN /\ ret.img.boxes = {}
                /\ Len(ret.img.pix) = Len(call.raw.pix)
                /\ \A i \in 1..Len(call.raw.pix) :
                       ret.img.pix[i] = call.raw.pix[Len(call.raw.pix) + 1 - i]
           ELSE ret.img = analyzed[1]

\* A reused frame that differs from the mirrored input of the same call.
C2_Witness ==
    /\ call.op = "recognize"
    /\ call.decision = "ReuseCache"
    /\ analyzed # None
    /\ ret.img = analyzed[1]
    /\ ret.img # Flip(call.raw)

----------------------------------------------------------------------------
(* C3 *)

\* C3: no recognizer with a sampling interval N <= 0 exists (construction
\* with such an N fails), so no recognize call runs with such an N.
C3_NoNonPositiveInterval ==
    analyze_every_n >= 1

----------------------------------------------------------------------------
(* C4, C5 *)

\* The table schema of the specification (section 4.5).
DeclaredColumns ==
    <<"recorded_at", "happy", "sad", "angry", "surprise", "neutral",
      "disgusted", "fearful">>

\* The table has the declared columns and row i holds record i's values.
TableOfLedger(df) ==
    /\ df.columns = DeclaredColumns
    /\ Len(df.rows) = Len(records)
    /\ \A i \in 1..Len(records) :
           /\ Len(df.rows[i]) = Len(DeclaredColumns)
           /\ \A c \in 1..Len(DeclaredColumns) :
                  /\ HasKey(records[i], DeclaredColumns[c])
                  /\ df.rows[i][c] = Some(Get(records[i], DeclaredColumns[c]))

\* C4 as stated: after any sequence of add_record calls to_dataframe returns
\* a table with exactly the 8 declared columns in order and one row per
\* record in insertion order.
C4_EightColumnsAlways ==
    call.op = "to_dataframe" => TableOfLedger(ret.df)

\* C4, amended: every record recognize appends carries exactly the 8
\* declared keys in the declared order; and when every appended record
\* does, to_dataframe returns exactly the 8 declared columns in order with
\* one row per record in insertion order.
C4_EightColumnsForFullRecords ==
    /\ (/\ call.op = "recognize"
        /\ call.decision = "Analyze"
        /\ call.emotions # <<>>)
           => Keys(Last(records)) = DeclaredColumns
    /\ (/\ call.op = "to_dataframe"
        /\ \A i \in 1..Len(records) : Keys(records[i]) = DeclaredColumns)
           => TableOfLedger(ret.df)

\* A table of two different complete records, one of them from recognize.
C4_Witness ==
    /\ call.op = "to_dataframe"
    /\ Len(records) >= 2
    /\ \A i \in 1..Len(records) : Keys(records[i]) = DeclaredColumns
    /\ records[1] # records[2]
    /\ latency_records # <<>>
    /\ \E i \in 1..Len(records) : records[i] \notin TestRecords
    /\ Len(ret.df.rows) = Len(records)

\* C5: with no record appended to_dataframe returns zero rows and exactly
\* the 8 declared columns in order.
C5_EmptyTableHasSchema ==
    (call.op = "to_dataframe" /\ records = <<>>)
        => /\ ret.df.columns = DeclaredColumns
           /\ ret.df.rows = <<>>

C5_Witness ==
    /\ call.op = "to_dataframe"
    /\ records = <<>>
    /\ ret.kind = "DataFrame"
    /\ Len(ret.df.columns) = 8

----------------------------------------------------------------------------
(* C6 *)

\* C6: the ledger starts empty and every step of recognize, add_record,
\* to_dataframe and print_latency_summary keeps the old ledger as a prefix
\* of the new one; add_record puts its record last.
C6_LedgerAppendOnly ==
    /\ records = <<>>
    /\ [][/\ IsPrefix(records, records')
          /\ call'.op = "add_record"
                 => records' = Append(records, call'.record)]_vars

\* A ledger filled by recognize and then by add_record with another record.
C6_Witness ==
    /\ call.op = "add_record"
    /\ latency_records # <<>>
    /\ Len(records) >= 2
    /\ records[1] \notin TestRecords
    /\ Last(records) = call.record
    /\ records[1] # Last(records)

----------------------------------------------------------------------------
(* C7, C8 *)

\* The seven categories, in declaration order (specification, section 3).
Categories ==
    <<"happy", "sad", "angry", "surprise", "neutral", "disgusted", "fearful">>

\* The synonym table of the specification (section 4.2), written out for
\* the labels the classifier gives here; "" for a label in no category.
CategoryOf(l) ==
    CASE l \in {s_happy, l_Happy}                     -> "happy"
      [] l = s_sad                                    -> "sad"
      [] l = s_angry                                  -> "angry"
      [] l \in {s_surprise, s_surprised, l_SURPRISED} -> "surprise"
      [] l = s_neutral                                -> "neutral"
      [] l \in {s_disgust, s_disgusted}               -> "disgusted"
      [] l \in {s_fear, s_fearful}                    -> "fearful"
      [] OTHER                                        -> ""

\* Faces of the frame whose classification did not raise.
Succeeded(faces) == {i \in 1..Len(faces) : ~faces[i].raises}

RECURSIVE SumCounts(_, _)
SumCounts(d, c) ==
    IF c > Len(Categories) THEN 0
    ELSE Get(d, Categories[c]) + SumCounts(d, c + 1)

\* The last call analysed a frame and appended a record for it.
AppendedByRecognize ==
    /\ call.op = "recognize"
    /\ call.decision = "Analyze"
    /\ call.emotions # <<>>

\* C7 as stated: a record appended by recognize has all seven category keys
\* and its counts sum to at least the number of faces whose classification
\* succeeded.
C7_SumAtLeastSucceeded ==
    AppendedByRecognize =>
        /\ \A c \in 1..Len(Categories) : HasKey(Last(records), Categories[c])
        /\ SumCounts(Last(records), 1) >= Cardinality(Succeeded(call.faces))

\* C7, amended: a record appended by recognize has all seven category keys
\* and its counts sum to at most the number of faces whose classification
\* succeeded: to the number of those whose label belongs to a category.
C7_SumAtMostSucceeded ==
    AppendedByRecognize =>
        /\ \A c \in 1..Len(Categories) : HasKey(Last(records), Categories[c])
        /\ SumCounts(Last(records), 1) <= Cardinality(Succeeded(call.faces))
        /\ SumCounts(Last(records), 1) =
               Cardinality({i \in Succeeded(call.faces) :
                                CategoryOf(call.faces[i].dom) # ""})

\* A record of a frame with two classified faces, one with an unknown label.
C7_Witness ==
    /\ AppendedByRecognize
    /\ Cardinality(Succeeded(call.faces)) = 2
    /\ \E i \in 1..Len(call.faces) : call.faces[i] = Label(l_contempt)
    /\ SumCounts(Last(records), 1) = 1

\* C8: the counts written to the record are, per category, the number of
\* collected labels that belong to the category's synonym set whatever
\* their letter case; a label of no category is counted nowhere and the
\* call raises nothing.
C8_CountsFollowSynonyms ==
    AppendedByRecognize =>
        /\ ret.kind = "VideoFrame"
        /\ \A c \in 1..Len(Categories) :
               /\ HasKey(Last(records), Categories[c])
               /\ Get(Last(records), Categories[c]) =
                      Cardinality({i \in Succeeded(call.faces) :
                          CategoryOf(call.faces[i].dom) = Categories[c]})

\* Two synonyms of one category, one of them in capitals.
C8_Witness ==
    /\ AppendedByRecognize
    /\ call.faces = <<Label(l_SURPRISED), Label(s_surprise)>>
    /\ Get(Last(records), "surprise") = 2

----------------------------------------------------------------------------
(* C9 *)

\* The samples of s up to index i, added up.
RECURSIVE Total(_, _)
Total(s, i) == IF i = 0 THEN 0 ELSE Total(s, i - 1) + s[i]

\* C9: with no sample the summary reports "no data" and no min, max or
\* average; with samples it reports their number, the smallest, the largest
\* and sum / count; [10, 30, 20] gives 3, 10, 30 and 20.
C9_LatencySummary ==
    call.op = "print_latency_summary" =>
        IF latency_records = <<>>
        THEN /\ ret.text = "No latency data collected."
             /\ DOMAIN ret = {"kind", "text"}
        ELSE /\ ret.text = "LATENCY SUMMARY"
             /\ ret.total = Len(latency_records)
             /\ \E i \in 1..Len(latency_records) :
                    ret.min_lat = latency_records[i]
             /\ \A i \in 1..Len(latency_records) :
                    ret.min_lat <= latency_records[i]
             /\ \E i \in 1..Len(latency_records) :
                    ret.max_lat = latency_records[i]
             /\ \A i \in 1..Len(latency_records) :
                    ret.max_lat >= latency_records[i]
             /\ ret.avg_num = Total(latency_records, Len(latency_records))
             /\ ret.avg_den = Len(latency_records)
             /\ latency_records = <<10, 30, 20>> =>
                    /\ ret.total = 3
                    /\ ret.min_lat = 10
                    /\ ret.max_lat = 30
                    /\ ret.avg_num = 20 * ret.avg_den

C9_Witness ==
    /\ call.op = "print_latency_summary"
    /\ latency_records = <<10, 30, 20>>
    /\ ret.total = 3
    /\ ret.min_lat = 10

----------------------------------------------------------------------------
(* C10 *)

\* C10 as stated: the first call of print_latency_summary sets session_end
\* and a second call leaves it as the first one set it.
C10_FirstCallSets ==
    call.op = "print_latency_summary" =>
        /\ session_end # None
        /\ call.again => session_end = call.before

\* C10, amended: print_latency_summary never changes a session_end that is
\* already set, so a second call leaves it as it was after the first; and a
\* call made while there is no latency sample sets nothing: session_end
\* stays unset.
C10_SummaryKeepsSessionEnd ==
    call.op = "print_latency_summary" =>
        /\ call.before # None => session_end = call.before
        /\ call.again => session_end = call.before
        /\ latency_records = <<>> => session_end = None

\* A second summary in a row, at a later instant than the session end.
C10_Witness ==
    /\ call.op = "print_latency_summary"
    /\ call.again
    /\ session_end # None
    /\ session_end = call.before
    /\ session_end[1] < clock


----------------------------------------------------------------------------
(* C11 *)

\* C11 as stated: no recognize call assigns or changes session_end.
C11_RecognizeKeepsSessionEnd ==
    [][frame_count' # frame_count => session_end' = session_end]_vars

\* C11, amended: session_end is unset until the first analysed frame; every
\* recognize call that analyses its frame sets session_end to the time of
\* that call, every other recognize call leaves it as it was, and
\* print_latency_summary does not change it.
C11_AnalysisSetsSessionEnd ==
    [][/\ latency_records' = <<>> => session_end' = None
       /\ frame_count' # frame_count =>
              IF call'.decision = "Analyze"
              THEN session_end' = Some(clock)
              ELSE session_end' = session_end
       /\ call'.op = "print_latency_summary" =>
              session_end' = session_end]_vars

\* A second analysis has moved session_end to a later instant.
C11_Witness ==
    /\ call.op = "recognize"
    /\ call.decision = "Analyze"
    /\ Len(latency_records) = 2
    /\ clock = 1
    /\ session_end = Some(1)
    /\ session_start = 0

----------------------------------------------------------------------------
(* C12 *)

\* The faces whose classification gave a label, in order.
RECURSIVE Collected(_, _)
Collected(faces, i) ==
    IF i > Len(faces) THEN <<>>
    ELSE IF ~faces[i].raises /\ faces[i].dom # <<>>
         THEN <<i>> \o Collected(faces, i + 1)
         ELSE Collected(faces, i + 1)

\* C12: on an analysed frame a face whose classification raises gets no
\* label and no annotation, every other face is still annotated and its
\* label collected and counted, and the call returns a frame: nothing is
\* raised.
C12_FailedFaceIsSkipped ==
    (call.op = "recognize" /\ call.decision = "Analyze") =>
        /\ ret.kind = "VideoFrame"
        /\ {b.x : b \in ret.img.boxes} = Succeeded(call.faces)
        /\ Len(call.emotions) = Len(Collected(call.faces, 1))
        /\ \A k \in 1..Len(call.emotions) :
               CategoryOf(call.emotions[k])
                   = CategoryOf(call.faces[Collected(call.faces, 1)[k]].dom)
        /\ \A i \in Succeeded(call.faces) :
               CategoryOf(call.faces[i].dom) # "" =>
                   /\ records # <<>>
                   /\ Get(Last(records), CategoryOf(call.faces[i].dom)) >= 1

\* A failed face before a classified one: the second is counted.
C12_Witness ==
    /\ call.op = "recognize"
    /\ call.decision = "Analyze"
    /\ call.faces = <<Raises, Label(s_happy)>>
    /\ records # <<>>
    /\ Get(Last(records), "happy") = 1
    /\ ret.img.boxes = {[x |-> 2, label |-> s_happy]}


----------------------------------------------------------------------------
(* C13 *)

\* Position of a category in the declaration order.
DeclaredAt(cat) == CHOOSE c \in 1..Len(Categories) : Categories[c] = cat

\* C13: the per-category totals are listed by descending total, and
\* categories with equal totals in the declaration order happy, sad, angry,
\* surprise, neutral, disgusted, fearful.
C13_TiesInDeclarationOrder ==
    (call.op = "dashboard" /\ ret.kind = "Series") =>
        \A k, l \in 1..Len(ret.index) :
            k < l =>
                \/ ret.values[k] > ret.values[l]
                \/ /\ ret.values[k] = ret.values[l]
                   /\ DeclaredAt(ret.index[k]) < DeclaredAt(ret.index[l])

\* The part of C13 that the code guarantees: every category is listed once
\* with its total over all records, largest total first.
C13_DescendingTotals ==
    (call.op = "dashboard" /\ ret.kind = "Series") =>
        /\ Len(ret.index) = Len(Categories)
        /\ \A c \in 1..Len(Categories) :
               \E k \in 1..Len(ret.index) :
                   /\ ret.index[k] = Categories[c]
                   /\ ret.values[k] = ColumnSum(records, Categories[c])
        /\ \A k, l \in 1..Len(ret.index) :
               k < l => ret.values[k] >= ret.values[l]

\* The example: {happy: 3} then {happy: 2, sad: 5}, listed sad before happy.
C13_ExampleSadFirst ==
    /\ call.op = "dashboard"
    /\ ret.kind = "Series"
    /\ Len(records) = 2
    /\ ret.values[1] = 5
    /\ ret.values[2] = 5
    /\ ret.index[1] = "sad"
    /\ ret.index[2] = "happy"


----------------------------------------------------------------------------
(* C14 *)

\* C14 as stated: a recognize call appends exactly one record when it
\* analyses a frame on which at least one face was detected, and none
\* otherwise.
C14_RecordPerFrameWithFaces ==
    [][frame_count' # frame_count =>
           Len(records') = Len(records)
               + (IF call'.decision = "Analyze" /\ Len(call'.faces) >= 1
                  THEN 1 ELSE 0)]_vars

\* C14, amended: a recognize call appends exactly one record when it
\* analyses a frame on which at least one face was classified without
\* raising and with a non-empty label, and none otherwise (not for a
\* frame whose faces all fail or get no label, and not for a frame that
\* is not analysed).
C14_RecordPerFrameWithLabels ==
    [][frame_count' # frame_count =>
           Len(records') = Len(records)
               + (IF /\ call'.decision = "Analyze"
                     /\ \E i \in Succeeded(call'.faces) :
                            call'.faces[i].dom # <<>>
                  THEN 1 ELSE 0)]_vars

\* An analysed frame with two faces, neither giving a label: no record.
C14_Witness ==
    /\ call.op = "recognize"
    /\ call.decision = "Analyze"
    /\ call.faces = <<Raises, Label(l_empty)>>
    /\ records = <<>>
    /\ latency_records # <<>>

----------------------------------------------------------------------------
(* C15 *)

\* C15 as stated: no record whose seven counts are all zero is appended by
\* recognize.
C15_NoAllZeroRecord ==
    AppendedByRecognize => SumCounts(Last(records), 1) > 0

\* C15, amended: an analysed frame appends a record if and only if at
\* least one label was collected on it; the record's seven counts are all
\* zero exactly when none of the collected labels belongs to a category.
C15_RecordIffLabelCollected ==
    /\ [][(frame_count' # frame_count /\ call'.decision = "Analyze") =>
              /\ call'.emotions # <<>> => records' = Append(records, Last(records'))
              /\ call'.emotions = <<>> => records' = records]_vars
    /\ [](AppendedByRecognize =>
              (SumCounts(Last(records), 1) = 0
                   <=> \A k \in 1..Len(call.emotions) :
                           CategoryOf(call.emotions[k]) = ""))

\* A record with seven zero counts, appended for an unknown label.
C15_Witness ==
    /\ AppendedByRecognize
    /\ call.faces = <<Label(l_contempt)>>
    /\ Len(records) = 1
    /\ SumCounts(Last(records), 1) = 0


----------------------------------------------------------------------------
(* C16 *)

\* C16: a recognize call that passes its frame through (nothing cached yet)
\* or reuses the cache leaves the cache, the session ledger, the latency
\* ledger and session_end unchanged and adds one to the frame counter.
C16_NonAnalyzeOnlyCounts ==
    [][(/\ frame_count' # frame_count
        /\ call'.decision \in {"PassThroughRaw", "ReuseCache"}) =>
           /\ frame_count' = frame_count + 1
           /\ last_annotated' = last_annotated
           /\ records' = records
           /\ latency_records' = latency_records
           /\ session_end' = session_end
           /\ analyze_every_n' = analyze_every_n
           /\ session_start' = session_start
           /\ (call'.decision = "PassThroughRaw" <=> last_annotated = None)]_vars

\* A frame reused while the ledgers hold data, and one passed through.
C16_Witness ==
    /\ call.op = "recognize"
    /\ call.decision = "ReuseCache"
    /\ frame_count = 3
    /\ analyze_every_n = 2
    /\ records # <<>>
    /\ latency_records # <<>>
    /\ session_end # None

----------------------------------------------------------------------------
(* C17 *)

\* C17: the frame counter is 0 at construction, every recognize call adds
\* exactly one to it (whether it passes through, reuses, analyses or
\* fails), no other step changes it, and the sampling interval never
\* changes.
C17_CounterCountsCalls ==
    /\ frame_count = 0
    /\ [][/\ analyze_every_n' = analyze_every_n
          /\ IF call'.op = "recognize" /\ clock' = clock
             THEN frame_count' = frame_count + 1
             ELSE frame_count' = frame_count]_vars

\* Four calls: passed through, analysed, reused, analysed.
C17_Witness ==
    /\ analyze_every_n = 2
    /\ frame_count = 4
    /\ Len(latency_records) = 2
    /\ call.op = "recognize"

----------------------------------------------------------------------------
(* C18 *)

\* C18: print_latency_summary changes none of the frame counter, the
\* cache, the session ledger, the latency ledger and session_end, and it
\* logs its summary (raises nothing) also when it was never called before.
C18_SummaryIsPureRead ==
    [][call'.op = "print_latency_summary" =>
           /\ frame_count' = frame_count
           /\ last_annotated' = last_annotated
           /\ records' = records
           /\ latency_records' = latency_records
           /\ session_end' = session_end
           /\ analyze_every_n' = analyze_every_n
           /\ ret'.kind = "log"]_vars

\* The first summary of a session with samples, asked after time passed.
C18_Witness ==
    /\ call.op = "print_latency_summary"
    /\ ~call.again
    /\ latency_records # <<>>
    /\ records # <<>>
    /\ ret.text = "LATENCY SUMMARY"
    /\ session_end = call.before
    /\ session_end[1] < clock


----------------------------------------------------------------------------
(* C19 *)

\* C19: for N >= 1 the cache is unset exactly while fewer than N frames
\* have arrived, and once it is set no step unsets it.
C19_CacheFollowsCounter ==
    /\ [](analyze_every_n >= 1 =>
              (last_annotated = None <=> frame_count < analyze_every_n))
    /\ [][last_annotated # None => last_annotated' # None]_vars

\* The cache set by an analysis that found no face, then kept.
C19_Witness ==
    /\ analyze_every_n = 2
    /\ frame_count = 3
    /\ last_annotated # None
    /\ last_annotated[1].boxes = {}
    /\ records = <<>>

----------------------------------------------------------------------------
(* C20 *)

\* C20: for N >= 1 there is one latency sample per analysed frame
\* (frame_count div N of them), recognize has appended at most as many
\* records as there are samples, and session_end is set exactly when a
\* sample exists.
C20_SamplesRecordsSessionEnd ==
    analyze_every_n >= 1 =>
        /\ Len(latency_records) = frame_count \div analyze_every_n
        /\ Len(records) <= Len(latency_records)
        /\ session_end # None <=> latency_records # <<>>

\* Two analyses, one of them with a record, and a summary afterwards.
C20_Witness ==
    /\ analyze_every_n = 2
    /\ frame_count = 4
    /\ Len(latency_records) = 2
    /\ Len(records) = 1
    /\ session_end # None
    /\ call.op = "print_latency_summary"

====
